---- MODULE Spec2Model ----
(***************************************************************************)
(* Time-gap analysis of DatabaseClientSQLite (src/database_client.py):     *)
(* the files table, the ordered-timestamp query, get_average_time_gap,     *)
(* find_optimal_time_gaps and get_first_and_last_timestamp; the record     *)
(* operations of the same client; and the page navigation of TimeViewerApp *)
(* (src/brainboost_data_tools_time_viewer.py).                             *)
(*                                                                         *)
(* A modified_date TEXT value of the shape 'YYYY-MM-DD HH:MM:SS' is the    *)
(* tuple <<Y, M, D, h, m, s>> of the numbers its six digit fields spell    *)
(* (zero padded, so the order of the texts is the lexicographic order of   *)
(* the tuples).  A text of another shape is a tuple of another length and  *)
(* NULL is the empty tuple.  A datetime is <<ordinal day, second of day>>. *)
(* Float minutes are kept exact: a duration is held in seconds and the     *)
(* division by 60 is carried in the denominator of a ratio <<num, den>>.   *)
(***************************************************************************)
EXTENDS Integers, Sequences, FiniteSets, Bags, TLC

\* ---------------------------------------------------------------- bounds
MaxRows == 6
MaxMinGroupSize == 3

\* ------------------------------------------------------------- constants
SecondsPerMinute == 60
SecondsPerDay == 86400

NULL == <<>>
None == <<>>

\* max_gap_minutes values a caller passes (default 60; the tests use 30)
MaxGapChoices == {30, 60}

\* modified_date texts an indexer or create_file can have written
Day(h, m, s) == <<2024, 1, 1, h, m, s>>
ValidTexts ==
    { Day(12, 0, 0), Day(12, 2, 0), Day(12, 4, 0), Day(12, 10, 0),
      Day(12, 30, 0), Day(14, 0, 0), Day(14, 3, 0), Day(17, 0, 0) }
\* 19-character shape, not a date: minute 60
MalformedTexts == { Day(12, 60, 0) }
\* not of the 19-character shape: a date without time
ShapelessTexts == { <<2024, 1, 1>> }
DateTexts == ValidTexts \cup MalformedTexts \cup ShapelessTexts

\* ------------------------------------------------------ text and datetime
\* modified_date LIKE '____-__-__ __:__:__'
Like(t) == Len(t) = 6

\* string comparison of two texts of the 19-character shape
RECURSIVE TextLessFrom(_, _, _)
TextLessFrom(a, b, k) ==
    IF k > 6 THEN FALSE
    ELSE IF a[k] # b[k] THEN a[k] < b[k]
    ELSE TextLessFrom(a, b, k + 1)
TextLess(a, b) == TextLessFrom(a, b, 1)

IsLeap(y) == (y % 4 = 0) /\ ((y % 100 # 0) \/ (y % 400 = 0))
DaysInMonth(y, m) ==
    IF m = 2 THEN (IF IsLeap(y) THEN 29 ELSE 28)
    ELSE IF m \in {4, 6, 9, 11} THEN 30 ELSE 31
RECURSIVE DaysBeforeMonth(_, _)
DaysBeforeMonth(y, m) ==
    IF m <= 1 THEN 0 ELSE DaysBeforeMonth(y, m - 1) + DaysInMonth(y, m - 1)
DaysBeforeYear(y) ==
    365 * (y - 1) + ((y - 1) \div 4) - ((y - 1) \div 100) + ((y - 1) \div 400)

\* datetime.strptime(t, "%Y-%m-%d %H:%M:%S") raises ValueError iff ~ParseOK(t)
ParseOK(t) ==
    /\ Len(t) = 6
    /\ t[1] >= 1
    /\ t[2] \in 1..12
    /\ t[3] >= 1 /\ t[3] <= DaysInMonth(t[1], t[2])
    /\ t[4] \in 0..23
    /\ t[5] \in 0..59
    /\ t[6] \in 0..59
strptime(t) ==
    << DaysBeforeYear(t[1]) + DaysBeforeMonth(t[1], t[2]) + t[3],
       t[4] * 3600 + t[5] * SecondsPerMinute + t[6] >>

\* (a - b).total_seconds()
total_seconds(a, b) == (a[1] - b[1]) * SecondsPerDay + (a[2] - b[2])

\* ------------------------------------------------------------- the query
\* ORDER BY modified_date ASC over a bag of texts
\* (the rows of the smallest text come first, then the rest in order)
RECURSIVE OrderByAsc(_)
OrderByAsc(B) ==
    IF BagToSet(B) = {} THEN <<>>
    ELSE LET lo == CHOOSE t \in BagToSet(B) :
                      \A u \in BagToSet(B) : ~TextLess(u, t)
         IN  [j \in 1..B[lo] |-> lo]
                \o OrderByAsc([u \in BagToSet(B) \ {lo} |-> B[u]])

\* WHERE modified_date IS NOT NULL AND modified_date LIKE '____-__-__ __:__:__'
WhereShape(B) ==
    LET keep == { t \in BagToSet(B) : t # NULL /\ Like(t) }
    IN  [t \in keep |-> B[t]]

SelectModifiedDates(B) == OrderByAsc(WhereShape(B))

\* variant: the conversion loop stops at the first row that raises
RECURSIVE ParseTimestamps_Break(_)
ParseTimestamps_Break(rs) ==
    IF rs = <<>> THEN <<>>
    ELSE IF Len(rs) = 1
         THEN IF ParseOK(rs[1]) THEN <<strptime(rs[1])>> ELSE <<>>
         ELSE LET h == Len(rs) \div 2
                  front == ParseTimestamps_Break(SubSeq(rs, 1, h))
              IN  IF Len(front) = h
                  THEN front \o ParseTimestamps_Break(SubSeq(rs, h + 1, Len(rs)))
                  ELSE front

\* the conversion loop: rows that raise ValueError are skipped
\* (the loop over rs is the loop over its front half, then over its back half)
RECURSIVE ParseTimestamps(_)
ParseTimestamps(rs) ==
    IF rs = <<>> THEN <<>>
    ELSE IF Len(rs) = 1
         THEN IF ParseOK(rs[1]) THEN <<strptime(rs[1])>> ELSE <<>>
         ELSE LET h == Len(rs) \div 2
              IN  ParseTimestamps(SubSeq(rs, 1, h))
                     \o ParseTimestamps(SubSeq(rs, h + 1, Len(rs)))

\* ------------------------------------------------------------------ state
VARIABLES
    files,                \* the modified_date column of the files table: bag of texts
    pc,                   \* "idle", "gaps_loop", "gaps_done", "avg_loop", "avg_done", "fl_done"
    min_group_size, max_gap_minutes,
    timestamps, i, current_group_count, group_start_idx, groups,
    spans,                \* history: <<group_start_idx, end index>> of each emitted group
    rows, k, total_gap, count, last_time, avg_result,
    fl_result,            \* outcome of get_first_and_last_timestamp
    \* TimeViewerApp
    app,                  \* "off" before TimeViewerApp(), then "ready" or "exited"
    attrs,                \* names of the attributes set on the TimeViewerApp object
    init_failed,          \* _init_timeline_data ended in its except branch
    first_timestamp, last_timestamp, avg_gap,
    current_page, intervals_per_page, total_intervals,
    shown,                \* the intervals whose widgets are in the timeline layout
    \* the files table with all its columns, the AUTOINCREMENT sequence, and
    \* the last operation of the viewer or of the record API
    table, seq, op,
    written,              \* history: id -> the FileMetadata last written under it
    issued,               \* history: the ids create_file has returned
    \* DatabaseLoader
    loader,               \* position and local variables of DatabaseLoader.run
    signals,              \* the signals the run has emitted, in order
    seen,                 \* history: how often the rows of each text were fetched
    mutated               \* history: the table was written during the run

viewVars == << app, attrs, init_failed, first_timestamp, last_timestamp, avg_gap,
               current_page, intervals_per_page, total_intervals, shown >>
storeVars == << table, seq, op, written, issued >>
loaderVars == << loader, signals, seen, mutated >>
extVars == << fl_result, viewVars, storeVars, loaderVars >>

vars == << files, pc, min_group_size, max_gap_minutes, timestamps, i,
           current_group_count, group_start_idx, groups, spans,
           rows, k, total_gap, count, last_time, avg_result,
           fl_result, viewVars, storeVars, loaderVars >>

gapsVars == << min_group_size, max_gap_minutes, timestamps, i,
               current_group_count, group_start_idx, groups, spans >>
avgVars == << rows, k, total_gap, count, last_time, avg_result >>

\* element of a Python list at a 0-based index
At(s, n) == s[n + 1]

Init ==
    /\ files = EmptyBag
    /\ pc = "idle"
    /\ min_group_size = 0 /\ max_gap_minutes = 0
    /\ timestamps = <<>> /\ i = 0
    /\ current_group_count = 0 /\ group_start_idx = 0
    /\ groups = <<>> /\ spans = <<>>
    /\ rows = <<>> /\ k = 0 /\ total_gap = 0 /\ count = 0
    /\ last_time = None /\ avg_result = <<0, 1>>
    /\ fl_result = [raised |-> FALSE, value |-> <<None, None>>]
    /\ app = "off" /\ attrs = {} /\ init_failed = FALSE
    /\ first_timestamp = None /\ last_timestamp = None /\ avg_gap = <<0, 1>>
    /\ current_page = 0 /\ intervals_per_page = 0 /\ total_intervals = 0
    /\ shown = << >>
    /\ table = {} /\ seq = 0 /\ op = [name |-> "none"]
    /\ written = << >>
    /\ issued = {}
    /\ loader = [ pc |-> "off", total_files |-> 0, offset |-> 0, files |-> EmptyBag,
                  skipped |-> 0, processed |-> 0, queries |-> 0, chunks |-> 0 ]
    /\ signals = << >> /\ seen = EmptyBag /\ mutated = FALSE

\* a row is written to the files table (create_file, or the indexer)
InsertRow ==
    /\ pc = "idle"
    /\ BagCardinality(files) < MaxRows
    /\ \E t \in DateTexts : files' = files (+) SetToBag({t})
    /\ UNCHANGED << pc, gapsVars, avgVars, extVars >>

\* ------------------------------------------------ find_optimal_time_gaps
\* variant: the group is closed by the gap alone
ShouldClose_GapOnly(ts, n, gap) ==
    total_seconds(At(ts, n), At(ts, n - 1)) > gap * SecondsPerMinute

\* time_diff > max_gap_minutes or i == len(timestamps) - 1
\* (time_diff is total_seconds() / 60)
ShouldClose(ts, n, gap) ==
    \/ total_seconds(At(ts, n), At(ts, n - 1)) > gap * SecondsPerMinute
    \/ n = Len(ts) - 1

\* variant: a closed group ends at the current timestamp
LoopBody_EndAtCurrent(st, ts, n, minSize, gap) ==
    IF ShouldClose(ts, n, gap)
    THEN [ count  |-> 1,
           start  |-> n,
           groups |-> IF st.count >= minSize
                      THEN Append(st.groups,
                                  <<At(ts, st.start), At(ts, n), st.count>>)
                      ELSE st.groups,
           spans  |-> IF st.count >= minSize
                      THEN Append(st.spans, <<st.start, n - 1>>)
                      ELSE st.spans ]
    ELSE [ st EXCEPT !.count = st.count + 1 ]

\* variant: closing a group does not move group_start_idx
LoopBody_KeepStart(st, ts, n, minSize, gap) ==
    IF ShouldClose(ts, n, gap)
    THEN [ count  |-> 1,
           start  |-> st.start,
           groups |-> IF st.count >= minSize
                      THEN Append(st.groups,
                                  <<At(ts, st.start), At(ts, n - 1), st.count>>)
                      ELSE st.groups,
           spans  |-> IF st.count >= minSize
                      THEN Append(st.spans, <<st.start, n - 1>>)
                      ELSE st.spans ]
    ELSE [ st EXCEPT !.count = st.count + 1 ]

\* one iteration of "for i in range(1, len(timestamps))" on the loop state
\* st = [count, start, groups, spans]
LoopBody(st, ts, n, minSize, gap) ==
    IF ShouldClose(ts, n, gap)
    THEN [ count  |-> 1,
           start  |-> n,
           groups |-> IF st.count >= minSize
                      THEN Append(st.groups,
                                  <<At(ts, st.start), At(ts, n - 1), st.count>>)
                      ELSE st.groups,
           spans  |-> IF st.count >= minSize
                      THEN Append(st.spans, <<st.start, n - 1>>)
                      ELSE st.spans ]
    ELSE [ st EXCEPT !.count = st.count + 1 ]

\* variant: the last group is emitted whatever its size
FinalCatchUp_NoMinCheck(st, ts, minSize) ==
    [ st EXCEPT
        !.groups = Append(st.groups,
                          <<At(ts, st.start), At(ts, Len(ts) - 1), st.count>>),
        !.spans = Append(st.spans, <<st.start, Len(ts) - 1>>) ]

\* "Handle the last group if it meets the minimum size"
FinalCatchUp(st, ts, minSize) ==
    IF st.count >= minSize
    THEN [ st EXCEPT
             !.groups = Append(st.groups,
                               <<At(ts, st.start), At(ts, Len(ts) - 1), st.count>>),
             !.spans = Append(st.spans, <<st.start, Len(ts) - 1>>) ]
    ELSE st

\* variant: the first group starts with count 0
FirstGroup_CountZero == [ count |-> 0, start |-> 0, groups |-> <<>>, spans |-> <<>> ]

\* "Initialize the first group"
FirstGroup == [ count |-> 1, start |-> 0, groups |-> <<>>, spans |-> <<>> ]

\* the loop body run for i = lo, ..., hi
RECURSIVE RunLoopRange(_, _, _, _, _, _)
RunLoopRange(st, ts, lo, hi, minSize, gap) ==
    IF lo > hi THEN st
    ELSE IF lo = hi THEN LoopBody(st, ts, lo, minSize, gap)
    ELSE LET mid == (lo + hi) \div 2
             half == RunLoopRange(st, ts, lo, mid, minSize, gap)
         IN  \* the state after i = mid is computed before i = mid + 1 runs
             IF half = st THEN RunLoopRange(st, ts, mid + 1, hi, minSize, gap)
             ELSE RunLoopRange(half, ts, mid + 1, hi, minSize, gap)

\* for i in range(n, len(timestamps))
RunLoop(st, ts, n, minSize, gap) == RunLoopRange(st, ts, n, Len(ts) - 1, minSize, gap)

\* the value find_optimal_time_gaps returns on a table B
GroupsOf(B, minSize, gap) ==
    LET ts == ParseTimestamps(SelectModifiedDates(B))
    IN  IF ts = <<>> THEN <<>>
        ELSE FinalCatchUp(RunLoop(FirstGroup, ts, 1, minSize, gap), ts, minSize).groups

LoopState ==
    [ count |-> current_group_count, start |-> group_start_idx,
      groups |-> groups, spans |-> spans ]

\* the call: query, conversion, empty check, first group
CallFindOptimalTimeGaps ==
    /\ pc = "idle"
    /\ \E m \in 1..MaxMinGroupSize, g \in MaxGapChoices :
          /\ min_group_size' = m
          /\ max_gap_minutes' = g
    /\ timestamps' = ParseTimestamps(SelectModifiedDates(files))
    /\ groups' = <<>>
    /\ spans' = <<>>
    /\ IF timestamps' = <<>>
       THEN /\ pc' = "gaps_done"
            /\ UNCHANGED << i, current_group_count, group_start_idx >>
       ELSE /\ pc' = "gaps_loop"
            /\ current_group_count' = FirstGroup.count
            /\ group_start_idx' = FirstGroup.start
            /\ i' = 1
    /\ UNCHANGED << files, extVars, avgVars >>

GapsLoopStep ==
    /\ pc = "gaps_loop"
    /\ i < Len(timestamps)
    /\ LET st == LoopBody(LoopState, timestamps, i, min_group_size, max_gap_minutes)
       IN  /\ current_group_count' = st.count
           /\ group_start_idx' = st.start
           /\ groups' = st.groups
           /\ spans' = st.spans
    /\ i' = i + 1
    /\ UNCHANGED << files, extVars, pc, min_group_size, max_gap_minutes, timestamps, avgVars >>

GapsFinal ==
    /\ pc = "gaps_loop"
    /\ i >= Len(timestamps)
    /\ LET st == FinalCatchUp(LoopState, timestamps, min_group_size)
       IN  /\ groups' = st.groups
           /\ spans' = st.spans
    /\ pc' = "gaps_done"
    /\ UNCHANGED << files, extVars, min_group_size, max_gap_minutes, timestamps, i,
                    current_group_count, group_start_idx, avgVars >>

\* the caller has taken the returned list; the locals are gone
GapsReturn ==
    /\ pc = "gaps_done"
    /\ pc' = "idle"
    /\ min_group_size' = 0 /\ max_gap_minutes' = 0
    /\ timestamps' = <<>> /\ i' = 0
    /\ current_group_count' = 0 /\ group_start_idx' = 0
    /\ groups' = <<>> /\ spans' = <<>>
    /\ UNCHANGED << files, extVars, avgVars >>

\* -------------------------------------------------- get_average_time_gap
\* 0.0, and the value a division by zero stands for
Zero == <<0, 1>>
ZeroDivisionError == <<0, 0>>

\* total / cnt for a total held in seconds, as a ratio of minutes
TrueDivide(total, cnt) ==
    IF cnt = 0 THEN ZeroDivisionError ELSE <<total, SecondsPerMinute * cnt>>

\* variant: the division is not guarded
AverageOf_NoGuard(total, cnt) == TrueDivide(total, cnt)

\* total_gap / count if count > 0 else 0.0
AverageOf(total, cnt) ==
    IF cnt > 0 THEN TrueDivide(total, cnt) ELSE Zero

\* "total_gap = 0; count = 0; last_time = None"
AvgStart == [ total_gap |-> 0, count |-> 0, last_time |-> None ]

\* variant: last_time is set once and never advanced
AvgBody_KeepLast(st, date_str) ==
    IF ParseOK(date_str)
    THEN LET current_time == strptime(date_str)
         IN  IF st.last_time # None
             THEN [ total_gap |-> st.total_gap + total_seconds(current_time, st.last_time),
                    count     |-> st.count + 1,
                    last_time |-> st.last_time ]
             ELSE [ st EXCEPT !.last_time = current_time ]
    ELSE st

\* one iteration of "for (date_str,) in cursor.fetchall()" on the loop state
AvgBody(st, date_str) ==
    IF ParseOK(date_str)
    THEN LET current_time == strptime(date_str)
         IN  IF st.last_time # None
             THEN [ total_gap |-> st.total_gap + total_seconds(current_time, st.last_time),
                    count     |-> st.count + 1,
                    last_time |-> current_time ]
             ELSE [ st EXCEPT !.last_time = current_time ]
    ELSE st

\* for row in rows: the loop over rs is the loop over its front half
\* continued over its back half
RECURSIVE RunAvg(_, _)
RunAvg(st, rs) ==
    IF rs = <<>> THEN st
    ELSE IF Len(rs) = 1 THEN AvgBody(st, rs[1])
    ELSE LET h == Len(rs) \div 2
             half == RunAvg(st, SubSeq(rs, 1, h))
         IN  \* the state after the front half is computed before the back half runs
             IF half = st THEN RunAvg(st, SubSeq(rs, h + 1, Len(rs)))
             ELSE RunAvg(half, SubSeq(rs, h + 1, Len(rs)))

\* the value get_average_time_gap returns on a table B
AverageGapOf(B) ==
    LET st == RunAvg(AvgStart, SelectModifiedDates(B))
    IN  AverageOf(st.total_gap, st.count)

CallGetAverageTimeGap ==
    /\ pc = "idle"
    /\ rows' = SelectModifiedDates(files)
    /\ k' = 0
    /\ total_gap' = AvgStart.total_gap
    /\ count' = AvgStart.count
    /\ last_time' = AvgStart.last_time
    /\ pc' = "avg_loop"
    /\ UNCHANGED << files, extVars, gapsVars, avg_result >>

AvgLoopStep ==
    /\ pc = "avg_loop"
    /\ k < Len(rows)
    /\ LET st == AvgBody([ total_gap |-> total_gap, count |-> count,
                           last_time |-> last_time ], At(rows, k))
       IN  /\ total_gap' = st.total_gap
           /\ count' = st.count
           /\ last_time' = st.last_time
    /\ k' = k + 1
    /\ UNCHANGED << files, extVars, pc, gapsVars, rows, avg_result >>

AvgFinal ==
    /\ pc = "avg_loop"
    /\ k >= Len(rows)
    /\ avg_result' = AverageOf(total_gap, count)
    /\ pc' = "avg_done"
    /\ UNCHANGED << files, extVars, gapsVars, rows, k, total_gap, count, last_time >>

AvgReturn ==
    /\ pc = "avg_done"
    /\ pc' = "idle"
    /\ rows' = <<>> /\ k' = 0 /\ total_gap' = 0 /\ count' = 0
    /\ last_time' = None /\ avg_result' = <<0, 1>>
    /\ UNCHANGED << files, extVars, gapsVars >>

\* ------------------------------------------- get_first_and_last_timestamp
\* MIN(modified_date), MAX(modified_date) over a non-empty set of texts
MinText(S) == CHOOSE t \in S : \A u \in S : ~TextLess(u, t)
MaxText(S) == CHOOSE t \in S : \A u \in S : ~TextLess(t, u)

\* the outcome of get_first_and_last_timestamp on a table B: the aggregate
\* of no row is (NULL, NULL); strptime is not guarded, its ValueError leaves
\* the call
FirstAndLastOf(B) ==
    LET S == BagToSet(WhereShape(B))
    IN  IF S = {} THEN [raised |-> FALSE, value |-> <<None, None>>]
        ELSE IF ParseOK(MinText(S)) /\ ParseOK(MaxText(S))
        THEN [raised |-> FALSE,
              value |-> <<strptime(MinText(S)), strptime(MaxText(S))>>]
        ELSE [raised |-> TRUE, value |-> <<None, None>>]

GetFirstAndLastTimestamp ==
    /\ pc = "idle"
    /\ fl_result' = FirstAndLastOf(files)
    /\ pc' = "fl_done"
    /\ UNCHANGED << files, gapsVars, avgVars, viewVars, storeVars, loaderVars >>

FirstAndLastReturn ==
    /\ pc = "fl_done"
    /\ pc' = "idle"
    /\ fl_result' = [raised |-> FALSE, value |-> <<None, None>>]
    /\ UNCHANGED << files, gapsVars, avgVars, viewVars, storeVars, loaderVars >>

Next ==
    \/ InsertRow
    \/ CallFindOptimalTimeGaps
    \/ GapsLoopStep
    \/ GapsFinal
    \/ GapsReturn
    \/ CallGetAverageTimeGap
    \/ AvgLoopStep
    \/ AvgFinal
    \/ AvgReturn
    \/ GetFirstAndLastTimestamp
    \/ FirstAndLastReturn

Spec == Init /\ [][Next]_vars

\* ------------------------------------------- rows around the range ceiling
\* the range DatabaseLoader.run filters on
RangeFloor == <<1970, 1, 1, 0, 0, 0>>
RangeCeiling == <<2038, 1, 19, 3, 14, 7>>
InRange(t) == ~TextLess(t, RangeFloor) /\ ~TextLess(RangeCeiling, t)

MaxRangeRows == 3

\* texts on both sides of the ceiling
CeilingTexts ==
    { <<2038, 1, 19, 3, 0, 0>>, RangeCeiling,
      <<2038, 1, 19, 3, 14, 8>>, <<2038, 1, 19, 5, 0, 0>> }

InsertRowNearCeiling ==
    /\ pc = "idle"
    /\ BagCardinality(files) < MaxRangeRows
    /\ \E t \in CeilingTexts : files' = files (+) SetToBag({t})
    /\ UNCHANGED << pc, gapsVars, avgVars, extVars >>

NextRange ==
    \/ InsertRowNearCeiling
    \/ CallFindOptimalTimeGaps
    \/ GapsLoopStep
    \/ GapsFinal
    \/ GapsReturn
    \/ CallGetAverageTimeGap
    \/ AvgLoopStep
    \/ AvgFinal
    \/ AvgReturn
    \/ GetFirstAndLastTimestamp
    \/ FirstAndLastReturn

SpecRange == Init /\ [][NextRange]_vars

\* ------------------------------------------------------- TimeViewerApp
MinGapFloor == 30
IntervalsPerPage == 100

Max(a, b) == IF a >= b THEN a ELSE b
Min(a, b) == IF a <= b THEN a ELSE b

\* int(x) of a float x = r[1] / r[2], r[2] > 0: truncation towards zero
IntOf(r) == IF r[1] >= 0 THEN r[1] \div r[2] ELSE -((-r[1]) \div r[2])

\* variant: the average is rounded up
MinGapMinutes_Ceil(avg) == Max(MinGapFloor, IntOf(avg) + 1)

\* min_gap_minutes = max(30, int(self.avg_gap))
MinGapMinutes(avg) == Max(MinGapFloor, IntOf(avg))

\* int(total_minutes / min_gap_minutes), total_minutes = seconds / 60
TotalIntervalsOf(first, last, avg) ==
    IntOf(<<total_seconds(last, first), SecondsPerMinute * MinGapMinutes(avg)>>)

\* variant: the page count is rounded down
MaxPageOf_Floor(total, perPage) == total \div perPage

\* max_page = (total_intervals + intervals_per_page - 1) // intervals_per_page
MaxPageOf(total, perPage) == (total + perPage - 1) \div perPage

\* variant: the page is not raised to 1
PageOf_NoFloor(target, first, avg, perPage) ==
    IntOf(<<total_seconds(target, first),
            SecondsPerMinute * MinGapMinutes(avg) * perPage>>) + 1

\* max(1, int(total_minutes / (min_gap_minutes * intervals_per_page)) + 1)
PageOf(target, first, avg, perPage) ==
    Max(1, IntOf(<<total_seconds(target, first),
                   SecondsPerMinute * MinGapMinutes(avg) * perPage>>) + 1)

\* texts of the table the viewer is started on: five days and five hours
\* apart, forty seconds past a half hour, and a malformed one sorted last
ViewerTexts ==
    { <<2024, 1, 1, 12, 0, 0>>, <<2024, 1, 1, 12, 30, 40>>,
      <<2024, 1, 6, 17, 0, 0>>, <<2024, 1, 6, 17, 60, 0>> }
\* rows an indexer run writes with one modified_date
BulkCounts == {1, 250}

\* datetimes picked in the date/time selector
SeekTargets ==
    { strptime(<<2023, 12, 29, 12, 0, 0>>), strptime(<<2024, 1, 1, 12, 0, 0>>),
      strptime(<<2024, 1, 3, 14, 0, 0>>), strptime(<<2024, 1, 6, 17, 0, 0>>),
      strptime(<<2024, 1, 20, 12, 0, 0>>) }

\* an indexer run writes rows before the viewer is started
InsertRows ==
    /\ app = "off"
    /\ pc = "idle"
    /\ \E t \in ViewerTexts \ BagToSet(files), c \in BulkCounts :
          files' = files (+) [u \in {t} |-> c]
    /\ UNCHANGED << pc, gapsVars, avgVars, extVars >>

\* update_timeline_display: the layout is cleared; without the attribute
\* timeline_intervals the method returns, otherwise it adds the widgets of
\* timeline_intervals[start_idx:end_idx]
UpdateTimelineDisplay(names, timeline_intervals, page, perPage) ==
    IF "timeline_intervals" \notin names THEN << >>
    ELSE LET start_idx == (page - 1) * perPage
             end_idx == Min(start_idx + perPage, Len(timeline_intervals))
         IN  SubSeq(timeline_intervals, start_idx + 1, end_idx)

\* main(): TimeViewerApp() runs _init_data, which runs _init_timeline_data.
\* Its except branch shows the error dialog and re-raises; __init__ re-raises
\* and main() logs the fatal error and exits with status 1.
\* update_timeline_display returns at
\* "if not hasattr(self, 'timeline_intervals')": nothing assigns that
\* attribute, so the display and the page label are never refreshed.
InitTimelineData ==
    /\ app = "off"
    /\ pc = "idle"
    /\ op' = [name |-> "_init_timeline_data"]
    /\ LET fl == FirstAndLastOf(files)
           avg == AverageGapOf(files)
       IN  IF fl.raised
           THEN \* ValueError in get_first_and_last_timestamp
                /\ app' = "exited"
                /\ init_failed' = TRUE
                /\ UNCHANGED << attrs, first_timestamp, last_timestamp, avg_gap,
                                current_page, intervals_per_page, total_intervals,
                                shown >>
           ELSE /\ first_timestamp' = fl.value[1]
                /\ last_timestamp' = fl.value[2]
                /\ avg_gap' = avg
                /\ current_page' = 1
                /\ intervals_per_page' = IntervalsPerPage
                /\ IF fl.value[1] = None
                   THEN \* TypeError: None - None
                        /\ app' = "exited"
                        /\ init_failed' = TRUE
                        /\ attrs' = { "first_timestamp", "last_timestamp", "avg_gap",
                                      "current_page", "intervals_per_page" }
                        /\ UNCHANGED << total_intervals, shown >>
                   ELSE /\ app' = "ready"
                        /\ init_failed' = FALSE
                        /\ attrs' = { "first_timestamp", "last_timestamp", "avg_gap",
                                      "current_page", "intervals_per_page",
                                      "total_intervals" }
                        /\ total_intervals' =
                              TotalIntervalsOf(fl.value[1], fl.value[2], avg)
                        /\ shown' = UpdateTimelineDisplay(attrs', << >>, 1,
                                                          IntervalsPerPage)
    /\ UNCHANGED << files, pc, gapsVars, avgVars, fl_result, loaderVars, table, seq, written, issued >>

\* prev_page
PrevPage ==
    /\ app = "ready"
    /\ op' = [name |-> "prev_page", before |-> current_page]
    /\ IF current_page > 1
       THEN /\ current_page' = current_page - 1
            /\ shown' = UpdateTimelineDisplay(attrs, << >>, current_page',
                                              intervals_per_page)
       ELSE UNCHANGED << current_page, shown >>
    /\ UNCHANGED << files, pc, gapsVars, avgVars, fl_result, loaderVars, table, seq, written, issued,
                    app, attrs, init_failed, first_timestamp, last_timestamp,
                    avg_gap, intervals_per_page, total_intervals >>

\* variant: next_page does not look at max_page
NextPage_NoBound ==
    /\ app = "ready"
    /\ op' = [name |-> "next_page", before |-> current_page]
    /\ current_page' = current_page + 1
    /\ shown' = UpdateTimelineDisplay(attrs, << >>, current_page', intervals_per_page)
    /\ UNCHANGED << files, pc, gapsVars, avgVars, fl_result, loaderVars, table, seq, written, issued,
                    app, attrs, init_failed, first_timestamp, last_timestamp,
                    avg_gap, intervals_per_page, total_intervals >>

\* next_page
NextPage ==
    /\ app = "ready"
    /\ op' = [name |-> "next_page", before |-> current_page]
    /\ IF current_page < MaxPageOf(total_intervals, intervals_per_page)
       THEN /\ current_page' = current_page + 1
            /\ shown' = UpdateTimelineDisplay(attrs, << >>, current_page',
                                              intervals_per_page)
       ELSE UNCHANGED << current_page, shown >>
    /\ UNCHANGED << files, pc, gapsVars, avgVars, fl_result, loaderVars, table, seq, written, issued,
                    app, attrs, init_failed, first_timestamp, last_timestamp,
                    avg_gap, intervals_per_page, total_intervals >>

\* date_time_selected(selected_datetime)
DateTimeSelected ==
    /\ app = "ready"
    /\ \E target \in SeekTargets :
          /\ op' = [name |-> "date_time_selected", arg |-> target,
                    before |-> current_page]
          /\ current_page' =
                PageOf(target, first_timestamp, avg_gap, intervals_per_page)
          /\ shown' = UpdateTimelineDisplay(attrs, << >>, current_page',
                                            intervals_per_page)
    /\ UNCHANGED << files, pc, gapsVars, avgVars, fl_result, loaderVars, table, seq, written, issued,
                    app, attrs, init_failed, first_timestamp, last_timestamp,
                    avg_gap, intervals_per_page, total_intervals >>

NextViewer ==
    \/ InsertRows
    \/ InitTimelineData
    \/ PrevPage
    \/ NextPage
    \/ DateTimeSelected

SpecViewer == Init /\ [][NextViewer]_vars

\* ------------------------------------------------- the record operations
MaxRecords == 2
MaxSeq == 3

\* Optional[...]: None or a value
Some(v) == << v >>

\* a datetime with its microsecond: <<ordinal day, second of day, microsecond>>
DateTime(t, us) == << strptime(t)[1], strptime(t)[2], us >>

YearOf(n) ==
    CHOOSE y \in (n \div 366)..(n \div 365 + 1) :
        DaysBeforeYear(y) < n /\ n <= DaysBeforeYear(y + 1)
MonthOf(y, n) ==
    CHOOSE m \in 1..12 :
        /\ DaysBeforeMonth(y, m) < n - DaysBeforeYear(y)
        /\ n - DaysBeforeYear(y) <= DaysBeforeMonth(y, m) + DaysInMonth(y, m)

\* dt.strftime("%Y-%m-%d %H:%M:%S"): the microsecond is not written
strftime(dt) ==
    LET y == YearOf(dt[1])
        m == MonthOf(y, dt[1])
    IN  << y, m, dt[1] - DaysBeforeYear(y) - DaysBeforeMonth(y, m),
           dt[2] \div 3600, (dt[2] % 3600) \div SecondsPerMinute,
           dt[2] % SecondsPerMinute >>

\* FileMetadata values a caller passes (id None)
FileMetadata(path, drive, size, t, us, type, custom) ==
    [ id |-> None, full_path |-> path, drive |-> drive, size |-> size,
      modified_date |-> DateTime(t, us), file_type |-> type,
      custom_field |-> custom ]
NewFiles ==
    { FileMetadata("/a", "C:", 1024, <<2024, 1, 1, 12, 0, 0>>, 0, "txt", None),
      FileMetadata("/b", "D:", 0, <<2024, 1, 1, 12, 0, 0>>, 500000, "pdf", Some("meta")),
      FileMetadata("/a", "C:", 1024, <<2024, 1, 1, 14, 0, 0>>, 0, "txt", Some("meta")),
      FileMetadata("/c", "C:", 2048, <<2024, 2, 29, 23, 59, 59>>, 500000, "pdf", None) }

\* start_time and end_time of a range query
RangeTimes ==
    { DateTime(<<2024, 1, 1, 12, 0, 0>>, 0), DateTime(<<2024, 1, 1, 14, 0, 0>>, 0),
      DateTime(<<2024, 2, 29, 23, 59, 59>>, 0) }

\* variant: custom_field is not written
RowOf_NoCustom(f, id) ==
    [ id |-> id, full_path |-> f.full_path, drive |-> f.drive, size |-> f.size,
      modified_date |-> strftime(f.modified_date), file_type |-> f.file_type,
      custom_field |-> NULL ]

\* the column values create_file and update_file bind
RowOf(f, id) ==
    [ id |-> id, full_path |-> f.full_path, drive |-> f.drive, size |-> f.size,
      modified_date |-> strftime(f.modified_date), file_type |-> f.file_type,
      custom_field |-> f.custom_field ]

\* FileMetadata.from_row
from_row(row) ==
    [ id |-> Some(row.id), full_path |-> row.full_path, drive |-> row.drive,
      size |-> row.size, modified_date |-> DateTime(row.modified_date, 0),
      file_type |-> row.file_type, custom_field |-> row.custom_field ]

\* the modified_date column of a table
ModifiedDates(tbl) ==
    [ t \in { r.modified_date : r \in tbl } |->
        Cardinality({ r \in tbl : r.modified_date = t }) ]

\* SELECT * FROM files WHERE id = ?  ... FileMetadata.from_row(row) if row else None
ReadFileOf(tbl, id) ==
    IF \E r \in tbl : r.id = id
    THEN from_row(CHOOSE r \in tbl : r.id = id)
    ELSE None

\* the largest id of the rows of a table, 0 without rows
MaxRowid(tbl) ==
    IF tbl = {} THEN 0 ELSE CHOOSE n \in { r.id : r \in tbl } : \A r \in tbl : r.id <= n

\* variant: id INTEGER PRIMARY KEY without AUTOINCREMENT, the new id is one
\* more than the largest id in the table
create_file_MaxRowid ==
    /\ pc = "idle"
    /\ seq < MaxSeq
    /\ Cardinality(table) < MaxRecords
    /\ \E f \in NewFiles :
          LET id == MaxRowid(table) + 1
          IN  /\ table' = table \cup { RowOf(f, id) }
              /\ written' = [ j \in DOMAIN written \cup {id} |->
                                IF j = id THEN f ELSE written[j] ]
              /\ issued' = issued \cup {id}
              /\ op' = [ name |-> "create_file", arg |-> f, ret |-> id ]
    /\ seq' = seq + 1
    /\ files' = ModifiedDates(table')
    /\ UNCHANGED << pc, gapsVars, avgVars, fl_result, loaderVars, viewVars >>

\* create_file: id INTEGER PRIMARY KEY AUTOINCREMENT, the new id is one more
\* than the largest id the table ever held (sqlite_sequence)
create_file ==
    /\ pc = "idle"
    /\ seq < MaxSeq
    /\ Cardinality(table) < MaxRecords
    /\ \E f \in NewFiles :
          LET id == Max(seq, MaxRowid(table)) + 1
          IN  /\ table' = table \cup { RowOf(f, id) }
              /\ written' = [ j \in DOMAIN written \cup {id} |->
                                IF j = id THEN f ELSE written[j] ]
              /\ issued' = issued \cup {id}
              /\ seq' = id
              /\ op' = [ name |-> "create_file", arg |-> f, ret |-> id ]
    /\ files' = ModifiedDates(table')
    /\ UNCHANGED << pc, gapsVars, avgVars, fl_result, loaderVars, viewVars >>

\* variant: the row that is read is taken out of the table
read_file_TakesRow ==
    /\ pc = "idle"
    /\ \E id \in 0..MaxSeq :
          /\ op' = [ name |-> "read_file", arg |-> id, ret |-> ReadFileOf(table, id) ]
          /\ table' = { r \in table : r.id # id }
    /\ files' = ModifiedDates(table')
    /\ UNCHANGED << pc, gapsVars, avgVars, fl_result, loaderVars, viewVars,
                    seq, written, issued >>

read_file ==
    /\ pc = "idle"
    /\ \E id \in 0..MaxSeq :
          op' = [ name |-> "read_file", arg |-> id, ret |-> ReadFileOf(table, id) ]
    /\ UNCHANGED << files, pc, gapsVars, avgVars, fl_result, loaderVars, viewVars,
                    table, seq, written, issued >>

\* variant: the record is inserted when no row has the id
update_file_Upsert ==
    /\ pc = "idle"
    /\ \E f \in NewFiles, id \in 1..MaxSeq :
          LET hit == { r \in table : r.id = id }
          IN  /\ table' = (table \ hit) \cup { RowOf(f, id) }
              /\ written' = [ j \in DOMAIN written \cup {id} |->
                                IF j = id THEN f ELSE written[j] ]
              /\ op' = [ name |-> "update_file", arg |-> [f EXCEPT !.id = Some(id)],
                         ret |-> hit # {} ]
    /\ files' = ModifiedDates(table')
    /\ UNCHANGED << pc, gapsVars, avgVars, fl_result, loaderVars, viewVars, seq, issued >>

\* update_file with file.id set (None raises ValueError before the table is touched)
update_file ==
    /\ pc = "idle"
    /\ \E f \in NewFiles, id \in 1..MaxSeq :
          LET hit == { r \in table : r.id = id }
          IN  /\ table' = (table \ hit) \cup { RowOf(f, r.id) : r \in hit }
              /\ written' = [ j \in DOMAIN written |->
                                IF j = id THEN f ELSE written[j] ]
              /\ op' = [ name |-> "update_file", arg |-> [f EXCEPT !.id = Some(id)],
                         ret |-> hit # {} ]
    /\ files' = ModifiedDates(table')
    /\ UNCHANGED << pc, gapsVars, avgVars, fl_result, loaderVars, viewVars, seq, issued >>

\* variant: the rows are kept
delete_file_KeepsRow ==
    /\ pc = "idle"
    /\ \E id \in 1..MaxSeq :
          LET hit == { r \in table : r.id = id }
          IN  /\ table' = table
              /\ written' = written
              /\ op' = [ name |-> "delete_file", arg |-> id, ret |-> hit # {} ]
    /\ files' = ModifiedDates(table')
    /\ UNCHANGED << pc, gapsVars, avgVars, fl_result, loaderVars, viewVars, seq, issued >>

delete_file ==
    /\ pc = "idle"
    /\ \E id \in 1..MaxSeq :
          LET hit == { r \in table : r.id = id }
          IN  /\ table' = table \ hit
              /\ written' = [ j \in DOMAIN written \ {id} |-> written[j] ]
              /\ op' = [ name |-> "delete_file", arg |-> id, ret |-> hit # {} ]
    /\ files' = ModifiedDates(table')
    /\ UNCHANGED << pc, gapsVars, avgVars, fl_result, loaderVars, viewVars, seq, issued >>

\* variant: the end of the range is excluded
Between_EndExcluded(t, lo, hi) == ~TextLess(t, lo) /\ TextLess(t, hi)

\* modified_date BETWEEN ? AND ?
Between(t, lo, hi) == ~TextLess(t, lo) /\ ~TextLess(hi, t)

\* the orders ORDER BY modified_date DESC can return a set of rows in
\* (the order of rows with equal modified_date is not determined)
OrderByDesc(S) ==
    { sq \in [1..Cardinality(S) -> S] :
        /\ \A a, b \in 1..Cardinality(S) : a # b => sq[a] # sq[b]
        /\ \A a, b \in 1..Cardinality(S) :
              a < b => ~TextLess(sq[a].modified_date, sq[b].modified_date) }

get_files_in_timerange ==
    /\ pc = "idle"
    /\ \E start_time \in RangeTimes, end_time \in RangeTimes :
          LET hit == { r \in table : Between(r.modified_date, strftime(start_time),
                                             strftime(end_time)) }
          IN  \E fetched \in OrderByDesc(hit) :
                 op' = [ name |-> "get_files_in_timerange",
                         arg |-> << start_time, end_time >>,
                         ret |-> [ j \in 1..Len(fetched) |-> from_row(fetched[j]) ] ]
    /\ UNCHANGED << files, pc, gapsVars, avgVars, fl_result, loaderVars, viewVars,
                    table, seq, written, issued >>

\* the orders a SELECT without ORDER BY can return a set of rows in
AnyOrder(S) ==
    { sq \in [1..Cardinality(S) -> S] :
        \A a, b \in 1..Cardinality(S) : a # b => sq[a] # sq[b] }

\* file_type arguments of get_files_by_type
FileTypes == {"txt", "pdf", "doc"}

\* SELECT * FROM files WHERE file_type = ?
WhereFileType(tbl, file_type) == { r \in tbl : r.file_type = file_type }

get_files_by_type ==
    /\ pc = "idle"
    /\ \E file_type \in FileTypes :
          \E fetched \in AnyOrder(WhereFileType(table, file_type)) :
             op' = [ name |-> "get_files_by_type", arg |-> file_type,
                     ret |-> [ j \in 1..Len(fetched) |-> from_row(fetched[j]) ] ]
    /\ UNCHANGED << files, pc, gapsVars, avgVars, fl_result, loaderVars, viewVars,
                    table, seq, written, issued >>

\* the number of rows of a table B whose text is in S
RECURSIVE RowsOf(_, _)
RowsOf(B, S) ==
    IF S = {} THEN 0
    ELSE LET u == CHOOSE u \in S : TRUE IN B[u] + RowsOf(B, S \ {u})

\* string comparison of two texts of any shape: a proper prefix comes first
RECURSIVE StrLessFrom(_, _, _)
StrLessFrom(a, b, n) ==
    IF n > Len(a) THEN n <= Len(b)
    ELSE IF n > Len(b) THEN FALSE
    ELSE IF a[n] # b[n] THEN a[n] < b[n]
    ELSE StrLessFrom(a, b, n + 1)
StrLess(a, b) == StrLessFrom(a, b, 1)

\* get_files_in_timerange on a table given by its modified_date column:
\* the number of rows returned, or the ValueError of from_row
FilesInTimerangeOf(B, start_time, end_time) ==
    LET lo == strftime(start_time)
        hi == strftime(end_time)
        hit == { t \in BagToSet(B) : t # NULL /\ ~StrLess(t, lo) /\ ~StrLess(hi, t) }
    IN  IF \A t \in hit : ParseOK(t)
        THEN [ raised |-> FALSE, count |-> RowsOf(B, hit) ]
        ELSE [ raised |-> TRUE, count |-> 0 ]

NextStore ==
    \/ create_file
    \/ read_file
    \/ update_file
    \/ delete_file
    \/ get_files_in_timerange

SpecStore == Init /\ [][NextStore]_vars

\* ------------------------------- the queries and the analyses on one store
\* calls of the record API and of the three analyses, one after the other
NextQueries ==
    \/ create_file
    \/ update_file
    \/ delete_file
    \/ read_file
    \/ get_files_in_timerange
    \/ get_files_by_type
    \/ CallFindOptimalTimeGaps
    \/ GapsLoopStep
    \/ GapsFinal
    \/ GapsReturn
    \/ CallGetAverageTimeGap
    \/ AvgLoopStep
    \/ AvgFinal
    \/ AvgReturn
    \/ GetFirstAndLastTimestamp
    \/ FirstAndLastReturn

SpecQueries == Init /\ [][NextQueries]_vars

\* ------------------------------------------------------- DatabaseLoader.run
ChunkSize == 5000

\* texts of the table the loader runs on: two dates, a malformed text of the
\* shape, and a date one second past the ceiling
LoaderTexts ==
    { <<2024, 1, 1, 12, 0, 0>>, <<2024, 1, 1, 14, 0, 0>>, <<2024, 1, 1, 12, 60, 0>>,
      <<2038, 1, 19, 3, 14, 8>> }
\* rows an indexer run writes with one modified_date
LoaderCounts == {1, 5000, 7000}

\* WHERE modified_date IS NOT NULL AND modified_date LIKE '____-__-__ __:__:__'
\* AND modified_date >= '1970-01-01 00:00:00' AND modified_date <= '2038-01-19 03:14:07'
WhereShapeAndRange(B) ==
    LET keep == { t \in BagToSet(B) : t # NULL /\ Like(t) /\ InRange(t) }
    IN  [ t \in keep |-> B[t] ]

\* the rows ORDER BY modified_date DESC puts before the rows of text t
RowsBefore(B, t) == RowsOf(B, { u \in BagToSet(B) : TextLess(t, u) })

\* ORDER BY modified_date DESC LIMIT limit OFFSET offset, as the number of rows
\* of each text in the chunk
LimitOffset(B, limit, offset) ==
    LET n(t) == Min(RowsBefore(B, t) + B[t], offset + limit)
                   - Max(RowsBefore(B, t), offset)
        keep == { t \in BagToSet(B) : n(t) > 0 }
    IN  [ t \in keep |-> n(t) ]

\* variant: the handler also publishes the files loaded so far
Except_PublishesPartial(ld, sigs, message) ==
    sigs \o << [ sig |-> "error", message |-> message ],
               [ sig |-> "finished", files |-> ld.files, skipped |-> ld.skipped ] >>

\* except Exception as e: self.error_signal.emit(str(e))
Except(ld, sigs, message) == Append(sigs, [ sig |-> "error", message |-> message ])

\* an indexer run writes rows before the loader is started
LoaderInsertRows ==
    /\ loader.pc = "off"
    /\ pc = "idle"
    /\ \E t \in LoaderTexts \ BagToSet(files), c \in LoaderCounts :
          files' = files (+) [ u \in {t} |-> c ]
    /\ UNCHANGED << pc, gapsVars, avgVars, fl_result, viewVars, storeVars, loaderVars >>

\* run(), up to the count query: connect, PRAGMAs, index, SELECT COUNT(*).
\* sqlite3 raises OperationalError when the file or the table cannot be used.
LoaderCount ==
    /\ loader.pc = "off"
    /\ pc = "idle"
    /\ \E outcome \in {"ok", "OperationalError"} :
          IF outcome = "ok"
          THEN /\ loader' = [ loader EXCEPT
                                !.pc = "loop",
                                !.total_files = BagCardinality(WhereShapeAndRange(files)) ]
               /\ UNCHANGED signals
          ELSE /\ loader' = [ loader EXCEPT !.pc = "done" ]
               /\ signals' = Except(loader, signals, outcome)
    /\ UNCHANGED << files, pc, gapsVars, avgVars, fl_result, viewVars, storeVars,
                    seen, mutated >>

\* the rows of a chunk: processed += 1 for each, a dict appended to files for
\* each text strptime accepts, skipped += 1 for each it rejects
ProcessChunk(ld, chunk) ==
    LET good == { t \in BagToSet(chunk) : ParseOK(t) }
        bad == BagToSet(chunk) \ good
    IN  [ ld EXCEPT !.processed = @ + BagCardinality(chunk),
                    !.files = @ (+) [ t \in good |-> chunk[t] ],
                    !.skipped = @ + RowsOf(chunk, bad),
                    !.queries = @ + 1,
                    !.chunks = @ + 1 ]

\* one pass of "while True": the chunk query, the rows of the chunk, the
\* throughput log line and the progress signal; after an empty chunk the
\* connection is closed and finished_signal is emitted.
\* chunk_time = time.time() - chunk_start_time is 0.0 when the clock has not
\* advanced over the chunk, and len(chunk)/chunk_time then raises
\* ZeroDivisionError.
LoaderChunk ==
    /\ loader.pc = "loop"
    /\ \E outcome \in {"ok", "OperationalError"}, clock \in {"advanced", "same"} :
          LET chunk == LimitOffset(WhereShapeAndRange(files), ChunkSize, loader.offset)
              after == ProcessChunk(loader, chunk)
          IN  IF outcome # "ok"
              THEN /\ loader' = [ loader EXCEPT !.pc = "done", !.queries = @ + 1 ]
                   /\ signals' = Except(loader, signals, outcome)
                   /\ UNCHANGED seen
              ELSE IF chunk = EmptyBag
              THEN /\ loader' = [ loader EXCEPT !.pc = "done", !.queries = @ + 1 ]
                   /\ signals' = Append(signals,
                                   [ sig |-> "finished", files |-> loader.files,
                                     skipped |-> loader.skipped ])
                   /\ UNCHANGED seen
              ELSE IF clock = "same"
              THEN /\ loader' = [ after EXCEPT !.pc = "done" ]
                   /\ signals' = Except(after, signals, "ZeroDivisionError")
                   /\ seen' = seen (+) chunk
              ELSE /\ loader' = [ after EXCEPT !.offset = @ + ChunkSize ]
                   /\ signals' = Append(signals,
                                   [ sig |-> "progress",
                                     current |-> Min(loader.offset + ChunkSize,
                                                     loader.total_files),
                                     total |-> loader.total_files ])
                   /\ seen' = seen (+) chunk
    /\ UNCHANGED << files, pc, gapsVars, avgVars, fl_result, viewVars, storeVars,
                    mutated >>

\* another connection inserts a row while the loader runs
WriterInserts ==
    /\ loader.pc = "loop"
    /\ ~mutated
    /\ \E t \in LoaderTexts : files' = files (+) SetToBag({t})
    /\ mutated' = TRUE
    /\ UNCHANGED << pc, gapsVars, avgVars, fl_result, viewVars, storeVars,
                    loader, signals, seen >>

\* another connection deletes a row while the loader runs
WriterDeletes ==
    /\ loader.pc = "loop"
    /\ ~mutated
    /\ \E t \in BagToSet(files) : files' = files (-) SetToBag({t})
    /\ mutated' = TRUE
    /\ UNCHANGED << pc, gapsVars, avgVars, fl_result, viewVars, storeVars,
                    loader, signals, seen >>

NextLoader ==
    \/ LoaderInsertRows
    \/ LoaderCount
    \/ LoaderChunk
    \/ WriterInserts
    \/ WriterDeletes

SpecLoader == Init /\ [][NextLoader]_vars

\* ================================================================ claims
GapsDone == pc = "gaps_done"
AvgDone == pc = "avg_done"

DtLess(a, b) == total_seconds(b, a) > 0
T(h, m) == strptime(Day(h, m, 0))
NumTs == Len(timestamps)
Last(s) == s[Len(s)]

\* the gap after the j-th timestamp (1-based) exceeds max_gap_minutes
Cut(j) ==
    total_seconds(timestamps[j + 1], timestamps[j]) > max_gap_minutes * SecondsPerMinute

\* timestamps[a..b] (1-based) is a maximal run: no cut inside, a cut or the
\* end of the sequence on either side
IsMaximalRun(a, b) ==
    /\ 1 <= a /\ a <= b /\ b <= NumTs
    /\ a = 1 \/ Cut(a - 1)
    /\ b = NumTs \/ Cut(b)
    /\ \A j \in a..(b - 1) : ~Cut(j)

RunEnd(a) ==
    CHOOSE b \in a..NumTs :
        /\ b = NumTs \/ Cut(b)
        /\ \A j \in a..(b - 1) : ~Cut(j)

\* the reference result: maximal runs of length >= min_group_size, in order
RECURSIVE ReferenceGroupsFrom(_)
ReferenceGroupsFrom(a) ==
    IF a > NumTs THEN <<>>
    ELSE LET b == RunEnd(a)
         IN  (IF b - a + 1 >= min_group_size
              THEN << <<timestamps[a], timestamps[b], b - a + 1>> >>
              ELSE <<>>) \o ReferenceGroupsFrom(b + 1)
ReferenceGroups == ReferenceGroupsFrom(1)

Occurrences(s, x) == Cardinality({ j \in 1..Len(s) : s[j] = x })

RECURSIVE SumCounts(_)
SumCounts(gs) == IF gs = <<>> THEN 0 ELSE Head(gs)[3] + SumCounts(Tail(gs))

\* 0-based positions of the input covered by the j-th emitted group
Covered(j) == spans[j][1]..spans[j][2]

\* C1: every maximal run that is ended by a gap larger than max_gap_minutes
\* is returned exactly once as (first, last, length) when its length is at
\* least min_group_size, and is not returned when it is shorter.
C1_RunsEndedByGap ==
    GapsDone =>
        \A a \in 1..NumTs : \A b \in a..(NumTs - 1) :
            IsMaximalRun(a, b) =>
                Occurrences(groups, <<timestamps[a], timestamps[b], b - a + 1>>)
                    = (IF b - a + 1 >= min_group_size THEN 1 ELSE 0)

\* the reference dataset of the tests: two groups, the 17:00 singleton dropped
C1_Witness ==
    /\ GapsDone
    /\ min_group_size = 2 /\ max_gap_minutes = 60
    /\ timestamps = << T(12, 0), T(12, 2), T(12, 4), T(14, 0), T(14, 3), T(17, 0) >>
    /\ groups = << <<T(12, 0), T(12, 4), 3>>, <<T(14, 0), T(14, 3), 2>> >>

\* C2: when the gap before the last timestamp is at most max_gap_minutes the
\* last timestamp joins the running group, so the last emitted group is the
\* final maximal run, ends at the last timestamp and counts it.
C2_LastJoinsRunningGroup ==
    (GapsDone /\ NumTs >= 2 /\ ~Cut(NumTs - 1)) =>
        \A a \in 1..NumTs :
            (IsMaximalRun(a, NumTs) /\ NumTs - a + 1 >= min_group_size) =>
                /\ groups # <<>>
                /\ Last(groups) = <<timestamps[a], timestamps[NumTs], NumTs - a + 1>>

\* C3: the returned groups are the reference result: the maximal runs of
\* length >= min_group_size as (first, last, length), in ascending order.
C3_EqualsReference == GapsDone => groups = ReferenceGroups

\* C4: consecutive emitted groups g, h satisfy g.end < h.start, so the groups
\* are strictly ordered by start and their closed ranges do not overlap.
C4_StrictlyOrderedNoOverlap ==
    \A j \in 1..(Len(groups) - 1) : DtLess(groups[j][2], groups[j + 1][1])

\* C5: every input position is counted in at most one emitted group, no
\* group is emitted twice, each count is the size of the positions it
\* covers, and the counts sum to at most the input length, with equality
\* exactly when every position is covered.
C5_NoDoubleEmission ==
    /\ Len(spans) = Len(groups)
    /\ \A j \in 1..Len(groups) : groups[j][3] = Cardinality(Covered(j))
    /\ \A p \in 0..(NumTs - 1) :
          Cardinality({ j \in 1..Len(spans) : p \in Covered(j) }) <= 1
    /\ \A j \in 1..Len(spans) : \A l \in 1..Len(spans) :
          j # l => spans[j] # spans[l]
    /\ SumCounts(groups) <= NumTs
    /\ GapsDone =>
          ( SumCounts(groups) = NumTs
              <=> \A p \in 0..(NumTs - 1) : \E j \in 1..Len(spans) : p \in Covered(j) )

\* both closures emitted: the in-loop closure at the last index and the
\* closure after the loop
C5_Witness ==
    /\ GapsDone
    /\ NumTs >= 3 /\ ~Cut(NumTs - 1)
    /\ Len(spans) >= 2
    /\ Last(spans) = <<NumTs - 1, NumTs - 1>>
    /\ spans[Len(spans) - 1][2] = NumTs - 2
    /\ SumCounts(groups) = NumTs

\* C6: every emitted group has start <= end and count >= 1, starts and ends
\* at the timestamps of its first and last position, and its count is the
\* number of positions from the first to the last, duplicates included.
C6_GroupShape ==
    \A j \in 1..Len(groups) :
        /\ j <= Len(spans)
        /\ ~DtLess(groups[j][2], groups[j][1])
        /\ groups[j][3] >= 1
        /\ spans[j][1] <= spans[j][2]
        /\ groups[j][1] = At(timestamps, spans[j][1])
        /\ groups[j][2] = At(timestamps, spans[j][2])
        /\ groups[j][3] = spans[j][2] - spans[j][1] + 1

\* a group made of duplicates of one timestamp
C6_Witness ==
    /\ GapsDone
    /\ \E j \in 1..Len(groups) :
          groups[j][1] = groups[j][2] /\ groups[j][3] >= 2

\* C7: every emitted group has count >= min_group_size, no emitted group
\* spans a gap larger than max_gap_minutes (nothing is merged into a
\* neighbour), and the timestamps of a run shorter than min_group_size are
\* in no emitted group.
C7_MinSizeFilter ==
    /\ \A j \in 1..Len(groups) : groups[j][3] >= min_group_size
    /\ \A j \in 1..Len(spans) :
          \A p \in Covered(j) : p + 1 \in Covered(j) => ~Cut(p + 1)
    /\ \A a \in 1..NumTs : \A b \in a..NumTs :
          (IsMaximalRun(a, b) /\ b - a + 1 < min_group_size) =>
              \A p \in (a - 1)..(b - 1) :
                  \A j \in 1..Len(spans) : p \notin Covered(j)

\* a run too short lies between two emitted groups
C7_Witness ==
    /\ GapsDone
    /\ Len(spans) = 2
    /\ \E a \in 2..NumTs : \E b \in a..(NumTs - 1) :
          /\ IsMaximalRun(a, b)
          /\ b - a + 1 < min_group_size
          /\ spans[1][2] = a - 2
          /\ spans[2][1] = b

\* the ascending sequence of valid timestamps of the table
ValidTimestamps == ParseTimestamps(SelectModifiedDates(files))

\* sum, in seconds, of v[j+1] - v[j] over the adjacent pairs from j on
RECURSIVE SumAdjacentGaps(_, _)
SumAdjacentGaps(v, j) ==
    IF j >= Len(v) THEN 0
    ELSE total_seconds(v[j + 1], v[j]) + SumAdjacentGaps(v, j + 1)

\* ratios a and b denote the same number
SameRatio(a, b) == a[2] # 0 /\ b[2] # 0 /\ a[1] * b[2] = b[1] * a[2]

\* C8: with at least two valid timestamps get_average_time_gap returns the
\* sum of the adjacent differences divided by the number of adjacent pairs,
\* in minutes.
C8_AverageIsMeanOfGaps ==
    (AvgDone /\ Len(ValidTimestamps) >= 2) =>
        SameRatio(avg_result,
                  << SumAdjacentGaps(ValidTimestamps, 1),
                     SecondsPerMinute * (Len(ValidTimestamps) - 1) >>)

\* gaps of 10 and 20 minutes give 15
C8_Witness ==
    /\ AvgDone
    /\ ValidTimestamps = << T(12, 0), T(12, 10), T(12, 30) >>
    /\ SameRatio(avg_result, <<15, 1>>)

\* C9: get_average_time_gap returns 0.0, and does not divide by zero, when
\* the table holds fewer than 2 valid timestamps; find_optimal_time_gaps
\* returns an empty list when it holds none.
C9_DegenerateInputs ==
    /\ (AvgDone /\ Len(ValidTimestamps) < 2) =>
          (avg_result # ZeroDivisionError /\ avg_result = Zero)
    /\ (GapsDone /\ Len(ValidTimestamps) = 0) => groups = <<>>

\* one valid timestamp: the loop ran and measured no gap
C9_Witness ==
    /\ AvgDone
    /\ Len(ValidTimestamps) = 1
    /\ last_time # None
    /\ count = 0

\* the table without the rows of the 19-character shape that are no dates
WithoutMalformed(B) ==
    LET keep == { t \in BagToSet(B) : ~(Like(t) /\ ~ParseOK(t)) }
    IN  [t \in keep |-> B[t]]

HasMalformed(B) == \E t \in BagToSet(B) : Like(t) /\ ~ParseOK(t)

\* C10: both analyses return what they return on the table without its
\* malformed rows, and get_average_time_gap does not fail.
C10_MalformedSkipped ==
    /\ GapsDone =>
          groups = GroupsOf(WithoutMalformed(files), min_group_size, max_gap_minutes)
    /\ AvgDone =>
          /\ avg_result # ZeroDivisionError
          /\ avg_result = AverageGapOf(WithoutMalformed(files))

\* a malformed row sorted between two valid rows, the later one in a group
C10_Witness ==
    /\ GapsDone
    /\ HasMalformed(files)
    /\ \E t \in BagToSet(files) : \E u \in BagToSet(files) : \E w \in BagToSet(files) :
          /\ ParseOK(t) /\ ParseOK(w) /\ Like(u) /\ ~ParseOK(u)
          /\ TextLess(t, u) /\ TextLess(u, w)
    /\ groups # <<>>
    /\ Last(groups)[2] = Last(timestamps)

FirstLastDone == pc = "fl_done"

\* C11: get_first_and_last_timestamp does not fail and returns the first and
\* the last element of the sequence of valid timestamps, (None, None) when
\* that sequence is empty.
C11_FirstAndLastOfValid ==
    FirstLastDone =>
        /\ ~fl_result.raised
        /\ fl_result.value =
              (IF ValidTimestamps = <<>> THEN <<None, None>>
               ELSE <<ValidTimestamps[1], Last(ValidTimestamps)>>)

\* the table without the rows outside [RangeFloor, RangeCeiling]
WithoutOutOfRange(B) ==
    LET keep == { t \in BagToSet(B) : ~Like(t) \/ InRange(t) }
    IN  [t \in keep |-> B[t]]

\* C12: rows outside the representable range influence neither the average
\* gap, nor the emitted groups, nor the first and last timestamp.
C12_OutOfRangeExcluded ==
    /\ GapsDone =>
          groups = GroupsOf(WithoutOutOfRange(files), min_group_size, max_gap_minutes)
    /\ AvgDone => avg_result = AverageGapOf(WithoutOutOfRange(files))
    /\ FirstLastDone => fl_result = FirstAndLastOf(WithoutOutOfRange(files))

\* ------------------------------------------------------------ the viewer
Ready == app = "ready"

\* the page count next_page and _update_navigation compute
MaxPage == MaxPageOf(total_intervals, intervals_per_page)

\* round(x) of a float x = r[1] / r[2] >= 0: to nearest, halves to even
RoundOf(r) ==
    LET q == r[1] \div r[2]
        twice == 2 * (r[1] % r[2])
    IN  IF twice > r[2] THEN q + 1
        ELSE IF twice < r[2] THEN q
        ELSE IF q % 2 = 0 THEN q ELSE q + 1

\* total_intervals is the whole number of th-minute intervals in the span
IntervalsCutBy(th) ==
    LET span == total_seconds(last_timestamp, first_timestamp)
    IN  /\ total_intervals * (SecondsPerMinute * th) <= span
        /\ span < (total_intervals + 1) * (SecondsPerMinute * th)

\* C13 (as stated): the intervals of the timeline are cut with the threshold
\* max(30, round(average gap in minutes)).
C13_ThresholdRounds ==
    Ready => IntervalsCutBy(Max(MinGapFloor, RoundOf(avg_gap)))

\* C13 (amended): the intervals of the timeline are cut with the threshold
\* max(30, average gap in minutes truncated to a whole number), which is never
\* below 30, also when the average is 0 or smaller than 30.
C13_ThresholdTruncates ==
    Ready =>
        LET th == IF avg_gap[1] < (MinGapFloor + 1) * avg_gap[2] THEN MinGapFloor
                  ELSE avg_gap[1] \div avg_gap[2]
        IN  /\ th >= MinGapFloor
            /\ IntervalsCutBy(th)

\* an average above 30 minutes whose fraction is more than a half
C13_Witness ==
    /\ Ready
    /\ avg_gap[1] >= MinGapFloor * avg_gap[2]
    /\ 2 * (avg_gap[1] % avg_gap[2]) > avg_gap[2]
    /\ total_intervals = 1

DefaultMinGroupSize == 2

C15_PageStepsStopAtBounds ==
    /\ op.name = "prev_page" =>
          current_page = (IF op.before = 1 THEN 1 ELSE op.before - 1)
    /\ (op.name = "next_page" /\ op.before <= MaxPage) =>
          current_page = (IF op.before = MaxPage THEN MaxPage ELSE op.before + 1)

\* next_page pressed on the last of three pages
C15_Witness ==
    /\ Ready
    /\ MaxPage = 3
    /\ op.name = "next_page" /\ op.before = MaxPage
    /\ current_page = MaxPage

\* C16: on a non-empty timeline the current page stays within [1, total pages].
C16_PageWithinBounds ==
    (Ready /\ files # EmptyBag) => (1 <= current_page /\ current_page <= MaxPage)

\* C17: date_time_selected(target) sets the page to
\* max(1, floor(minutes(target - first) / (threshold * page size)) + 1),
\* which is page 1 for a target before the first timestamp and never below 1.
C17_SeekPage ==
    (Ready /\ op.name = "date_time_selected") =>
        LET secs == total_seconds(op.arg, first_timestamp)
            width == SecondsPerMinute * MinGapMinutes(avg_gap) * intervals_per_page
        IN  /\ current_page = Max(1, (secs \div width) + 1)
            /\ current_page >= 1
            /\ DtLess(op.arg, first_timestamp) => current_page = 1

\* a target more than one page width before the first timestamp
C17_Witness ==
    /\ Ready
    /\ op.name = "date_time_selected"
    /\ total_seconds(first_timestamp, op.arg) >
          SecondsPerMinute * MinGapMinutes(avg_gap) * intervals_per_page
    /\ current_page = 1

DtLeq(a, b) ==
    \/ a[1] < b[1]
    \/ a[1] = b[1] /\ a[2] < b[2]
    \/ a[1] = b[1] /\ a[2] = b[2] /\ a[3] <= b[3]

\* the stored records, as read_file returns them
StoredRecords == { from_row(r) : r \in table }

\* C19: get_files_in_timerange(start, end) returns exactly the stored records
\* with start <= modified_date <= end, each once, latest first.
C19_TimerangeInclusiveDescending ==
    op.name = "get_files_in_timerange" =>
        LET start == op.arg[1]
            end == op.arg[2]
            ret == op.ret
        IN  /\ { ret[j] : j \in 1..Len(ret) } =
                  { f \in StoredRecords :
                      DtLeq(start, f.modified_date) /\ DtLeq(f.modified_date, end) }
            /\ \A a, b \in 1..Len(ret) : a # b => ret[a] # ret[b]
            /\ \A a, b \in 1..Len(ret) :
                  a < b => DtLeq(ret[b].modified_date, ret[a].modified_date)

\* a query whose two results lie on its end and on its start
C19_Witness ==
    /\ op.name = "get_files_in_timerange"
    /\ Len(op.ret) = 2
    /\ op.ret[1].modified_date = op.arg[2]
    /\ op.ret[2].modified_date = op.arg[1]
    /\ op.arg[1] # op.arg[2]

\* f as read back under id: the id set, the microsecond dropped
ReadBack(f, id) ==
    [ f EXCEPT !.id = Some(id),
               !.modified_date = << f.modified_date[1], f.modified_date[2], 0 >> ]

\* C20: create_file(f) returns an id > 0 under which read_file returns f with
\* modified_date at second resolution and custom_field None kept; read_file
\* of an id that holds no record returns None.
C20_CreateReadRoundTrip ==
    /\ op.name = "create_file" =>
          /\ op.ret > 0
          /\ ReadFileOf(table, op.ret) = ReadBack(op.arg, op.ret)
    /\ op.name = "read_file" =>
          op.ret = (IF op.arg \in DOMAIN written
                    THEN ReadBack(written[op.arg], op.arg) ELSE None)

\* a record with custom_field None and a microsecond has been read back
C20_Witness ==
    /\ op.name = "read_file"
    /\ op.ret # None
    /\ op.ret.custom_field = None
    /\ written[op.arg].modified_date[3] # 0
    /\ op.ret.modified_date[3] = 0

\* the rows of a table other than the one with an id
OtherRows(tbl, id) == { r \in tbl : r.id # id }

\* C21: update_file(f) returns True exactly when a row with f.id exists; then
\* read_file(f.id) returns f's fields and the other rows are as before; when
\* no such row exists the table is as before and nothing is created.
C21_UpdateFrame ==
    [][ op'.name = "update_file" =>
          LET id == op'.arg.id[1]
              exists == \E r \in table : r.id = id
          IN  /\ op'.ret = exists
              /\ exists => ReadFileOf(table', id) = ReadBack(op'.arg, id)
              /\ OtherRows(table', id) = OtherRows(table, id)
              /\ ~exists => table' = table
              /\ seq' = seq ]_vars

\* an update of one of two stored records has returned True
C21_Witness ==
    /\ op.name = "update_file"
    /\ op.ret
    /\ Cardinality(table) = 2
    /\ ReadFileOf(table, op.arg.id[1]) = ReadBack(op.arg, op.arg.id[1])

\* C22: delete_file(id) returns True exactly when a row with the id exists;
\* afterwards read_file(id) returns None and the other rows are as before; on
\* an id without a row the table is as before, so a second delete returns False.
C22_DeleteFrame ==
    [][ op'.name = "delete_file" =>
          LET id == op'.arg
              exists == \E r \in table : r.id = id
          IN  /\ op'.ret = exists
              /\ ReadFileOf(table', id) = None
              /\ OtherRows(table', id) = OtherRows(table, id)
              /\ ~exists => table' = table
              /\ (op.name = "delete_file" /\ op.arg = id) => ~op'.ret ]_vars

\* a delete of an id that was created and deleted before has returned False
\* while another record is stored
C22_Witness ==
    /\ op.name = "delete_file"
    /\ ~op.ret
    /\ op.arg <= seq
    /\ table # {}

\* C29: create_file returns an id greater than every id it returned before,
\* also when the record with the highest id was deleted; no id returned
\* before resolves to the new record, and the records under the earlier ids
\* are as they were.
C29_IdsNeverReused ==
    [][ (op'.name = "create_file" /\ op' # op) =>
          /\ \A j \in issued : op'.ret > j
          /\ issued' = issued \cup {op'.ret}
          /\ \A j \in issued : ReadFileOf(table', j) = ReadFileOf(table, j) ]_vars

\* a record was created after the record with the highest id was deleted,
\* while a record with a lower id is still stored
C29_Witness ==
    /\ op.name = "create_file"
    /\ op.ret - 1 \in issued
    /\ ReadFileOf(table, op.ret - 1) = None
    /\ \E r \in table : r.id < op.ret - 1

\* ----------------------------------------------------------- the loader
Terminal(s) == s.sig \in {"finished", "error"}
TerminalAt == { j \in 1..Len(signals) : Terminal(signals[j]) }
ProgressAt == { j \in 1..Len(signals) : signals[j].sig = "progress" }
LoaderDone == loader.pc = "done"

\* the rows the filter of the loader's queries selects
Matching == WhereShapeAndRange(files)

C25_ProgressPerChunk ==
    /\ \A j \in ProgressAt :
          /\ 0 <= signals[j].current
          /\ signals[j].current <= signals[j].total
          /\ signals[j].total = loader.total_files
    /\ \A a, b \in ProgressAt : a < b => signals[a].current <= signals[b].current
    /\ Cardinality(ProgressAt) = loader.chunks
    /\ \A a \in ProgressAt, b \in TerminalAt : a < b

\* C30: a run over a table nothing writes to during the run, and that meets
\* no store failure, ends with every matching row processed exactly once:
\* processed = total_files = len(files) + skipped.
C30_ExactlyOnce ==
    ( /\ LoaderDone
      /\ ~mutated
      /\ \A j \in TerminalAt : signals[j].sig = "error" =>
                                  signals[j].message # "OperationalError" )
    =>  /\ signals[Len(signals)].sig = "finished"
        /\ seen = Matching
        /\ loader.processed = loader.total_files
        /\ loader.total_files = BagCardinality(loader.files) + loader.skipped

\* the sequence of groups the pages are cut from
TimelineGroups == GroupsOf(files, DefaultMinGroupSize, MinGapMinutes(avg_gap))

\* C24: the page shown is the slice
\* groups[(p-1)*pageSize : p*pageSize] of the ascending sequence of groups.
C24_PageSlice ==
    Ready =>
        shown = SubSeq(TimelineGroups,
                       (current_page - 1) * intervals_per_page + 1,
                       Min(current_page * intervals_per_page, Len(TimelineGroups)))

C27_CountMatchesDetail ==
    GapsDone =>
        \A j \in 1..Len(groups) :
            FilesInTimerangeOf(files, groups[j][1], groups[j][2]) =
                [ raised |-> FALSE, count |-> groups[j][3] ]

\* the names the read-only operations of the record API leave in op
QueryNames == {"read_file", "get_files_in_timerange", "get_files_by_type"}

\* the records of a result list
RecordsOf(ret) == { ret[j] : j \in 1..Len(ret) }

\* what a query returns on a table, as the records it holds
AnswerOf(tbl, name, arg) ==
    IF name = "read_file" THEN ReadFileOf(tbl, arg)
    ELSE IF name = "get_files_by_type"
    THEN { from_row(r) : r \in WhereFileType(tbl, arg) }
    ELSE { from_row(r) : r \in { u \in tbl : Between(u.modified_date, strftime(arg[1]),
                                                     strftime(arg[2])) } }

\* the answer held in op, as the records it holds
AnswerIn(o) == IF o.name = "read_file" THEN o.ret ELSE RecordsOf(o.ret)

\* C28: a step of find_optimal_time_gaps, get_average_time_gap,
\* get_first_and_last_timestamp, get_files_in_timerange, get_files_by_type or
\* read_file leaves the stored records and the id sequence as they were; each
\* of them returns what the stored records determine, whatever queries and
\* analyses ran before it, and a query repeated after any number of analyses
\* returns the same records.
C28_QueriesReadOnly ==
    [][ /\ (pc # "idle" \/ pc' # "idle" \/ op'.name \in QueryNames) =>
              table' = table /\ files' = files /\ seq' = seq
        /\ op'.name \in QueryNames =>
              AnswerIn(op') = AnswerOf(table', op'.name, op'.arg)
        /\ (op.name \in QueryNames /\ op'.name = op.name /\ op'.arg = op.arg) =>
              AnswerIn(op') = AnswerIn(op)
        /\ pc' = "gaps_done" =>
              groups' = GroupsOf(ModifiedDates(table'), min_group_size', max_gap_minutes')
        /\ pc' = "avg_done" => avg_result' = AverageGapOf(ModifiedDates(table'))
        /\ pc' = "fl_done" => fl_result' = FirstAndLastOf(ModifiedDates(table')) ]_vars

\* find_optimal_time_gaps has returned groups after get_files_by_type
\* returned both stored records
C28_Witness ==
    /\ pc = "gaps_done"
    /\ groups # << >>
    /\ op.name = "get_files_by_type"
    /\ Len(op.ret) = 2
    /\ Cardinality(table) = 2

====
